---- MODULE Spec2Model ----
(***************************************************************************)
(* Iteration / coordination engine of the UAV design system.               *)
(*                                                                         *)
(* State: the fields of GlobalState (state.py), the position of the        *)
(* LangGraph workflow (workflow.py) and, inside a worker round, the        *)
(* position of each worker coroutine launched by asyncio.gather.           *)
(* The inference calls are the environment: their structured outputs are   *)
(* drawn from small sets.  StoredMessage.timestamp (a clock reading) is    *)
(* not modelled: no code path reads it.                                    *)
(***************************************************************************)
EXTENDS Integers, Sequences, FiniteSets, TLC

VARIABLES
    node,                   \* workflow position: "coordinator", "aggregator", "end"
    pc,                     \* per worker coroutine: "idle", "ready", "awaiting", "done"
    current_iteration,      \* GlobalState.current_iteration
    max_iterations,         \* GlobalState.max_iterations
    stability_threshold,    \* GlobalState.stability_threshold
    project_complete,       \* GlobalState.project_complete
    outputs,                \* GlobalState.<worker>_outputs : worker -> (iteration -> output)
    coordinator_outputs,    \* GlobalState.coordinator_outputs : iteration -> CoordinatorOutput
    mailboxes,              \* GlobalState.mailboxes : agent -> sequence of StoredMessage
    last_update_iteration,  \* GlobalState.last_update_iteration (a dict: its domain grows)
    eval_log,               \* iterations at which _evaluate_and_decide was invoked
    noise,                  \* number of non-nominal environment answers so far
    ret                     \* <<v>> once a direct call of check_stability returned v

vars == <<node, pc, current_iteration, max_iterations, stability_threshold,
          project_complete, outputs, coordinator_outputs, mailboxes,
          last_update_iteration, eval_log, noise, ret>>

stateVars == <<current_iteration, max_iterations, stability_threshold,
               project_complete, outputs, coordinator_outputs, mailboxes,
               last_update_iteration>>

-----------------------------------------------------------------------------
(* Bounds of the model *)

MaxIter == 4          \* max_iterations is drawn from 1..MaxIter
MaxThreshold == 2     \* stability_threshold is drawn from 1..MaxThreshold
MaxNoise == 1         \* non-nominal environment answers per run
MaxStabIter == 3      \* iterations drawn for direct calls of check_stability
MaxMailLen == 3       \* messages stored in direct use of AgentMailbox
MaxStamp == 2         \* greatest iteration stamp in direct use of AgentMailbox

-----------------------------------------------------------------------------
(* Static configuration *)

Workers == <<"mission_planner", "aerodynamics", "propulsion", "structures", "manufacturing">>

WorkerSet == {Workers[i] : i \in 1..Len(Workers)}

Agents == WorkerSet \cup {"coordinator"}

AgentOrder == Workers \o <<"coordinator">>

COMMUNICATION_RULES ==
    [w \in WorkerSet |->
        CASE w = "mission_planner" -> {"aerodynamics", "propulsion", "structures"}
          [] w = "aerodynamics"    -> {"mission_planner", "propulsion", "structures"}
          [] w = "propulsion"      -> {"mission_planner", "aerodynamics"}
          [] w = "structures"      -> {"mission_planner", "aerodynamics", "manufacturing"}
          [] w = "manufacturing"   -> {"structures"}]

None == "<None>"

Truthy(x) == x \notin {None, ""}

Max(S) == CHOOSE x \in S : \A y \in S : y <= x

Min(S) == CHOOSE x \in S : \A y \in S : x <= y

-----------------------------------------------------------------------------
(* Mailbox *)

add_message_front(mbs, owner, msg) == [mbs EXCEPT ![owner] = <<msg>> \o @]

add_message(mbs, owner, msg) == [mbs EXCEPT ![owner] = Append(@, msg)]

get_messages_up_to_iteration(mb, iteration) ==
    SelectSeq(mb, LAMBDA m : m.iteration <= iteration)

get_messages_for_iteration(mb, iteration) ==
    SelectSeq(mb, LAMBDA m : m.iteration = iteration)

StoredMessage(from, to, content, iteration) ==
    [from_agent |-> from, to_agent |-> to, content |-> content, iteration |-> iteration]

-----------------------------------------------------------------------------
(* Stability detector *)

ItemKeys(lui) == SelectSeq(AgentOrder, LAMBDA a : a \in DOMAIN lui)

RECURSIVE StabilityLoop(_, _, _, _)
StabilityLoop(keys, iter, threshold, lui) ==
    IF keys = <<>> THEN TRUE
    ELSE IF iter - lui[Head(keys)] < threshold THEN FALSE
    ELSE StabilityLoop(Tail(keys), iter, threshold, lui)

check_stability_no_floor(iter, threshold, lui) ==
    StabilityLoop(ItemKeys(lui), iter, threshold, lui)

RECURSIVE StabilityLoopLeq(_, _, _, _)
StabilityLoopLeq(keys, iter, threshold, lui) ==
    IF keys = <<>> THEN TRUE
    ELSE IF iter - lui[Head(keys)] <= threshold THEN FALSE
    ELSE StabilityLoopLeq(Tail(keys), iter, threshold, lui)

check_stability_leq(iter, threshold, lui) ==
    IF iter < threshold THEN FALSE
    ELSE StabilityLoopLeq(ItemKeys(lui), iter, threshold, lui)

check_stability_workers_only(iter, threshold, lui) ==
    IF iter < threshold THEN FALSE
    ELSE StabilityLoop(Workers, iter, threshold, lui)

RECURSIVE StabilityLoopShort(_, _, _, _)
StabilityLoopShort(keys, iter, threshold, lui) ==
    IF keys = <<>> THEN TRUE
    ELSE IF iter - lui[Head(keys)] < threshold - 1 THEN FALSE
    ELSE StabilityLoopShort(Tail(keys), iter, threshold, lui)

check_stability_short(iter, threshold, lui) ==
    IF iter < threshold THEN FALSE
    ELSE StabilityLoopShort(ItemKeys(lui), iter, threshold, lui)

check_stability(iter, threshold, lui) ==
    IF iter < threshold THEN FALSE
    ELSE StabilityLoop(ItemKeys(lui), iter, threshold, lui)

-----------------------------------------------------------------------------
(* Worker agent helpers *)

can_communicate_with_anyone(w, other) == other \in Agents

can_communicate_with(w, other) == other \in COMMUNICATION_RULES[w]

RECURSIVE FirstTask(_, _)
FirstTask(tasks, name) ==
    IF tasks = <<>> THEN None
    ELSE IF Head(tasks).agent_name = name THEN Head(tasks).task_description
    ELSE FirstTask(Tail(tasks), name)

HasTask(tasks, name) == \E i \in 1..Len(tasks) : tasks[i].agent_name = name

EarliestTask(keys, couts, name) ==
    LET named == {k \in keys : HasTask(couts[k].agent_tasks, name)} IN
    IF named = {} THEN None
    ELSE FirstTask(couts[Min(named)].agent_tasks, name)

\* The latest iteration, among keys, whose coordinator output names the agent.
MostRecentTask(keys, couts, name) ==
    LET named == {k \in keys : HasTask(couts[k].agent_tasks, name)} IN
    IF named = {} THEN None
    ELSE FirstTask(couts[Max(named)].agent_tasks, name)

get_task_current_only(name, iter, couts) ==
    IF iter \in DOMAIN couts /\ HasTask(couts[iter].agent_tasks, name)
    THEN FirstTask(couts[iter].agent_tasks, name)
    ELSE None

get_task_for_current_iteration(name, iter, couts) ==
    IF iter \in DOMAIN couts /\ HasTask(couts[iter].agent_tasks, name)
    THEN FirstTask(couts[iter].agent_tasks, name)
    ELSE MostRecentTask(DOMAIN couts, couts, name)

Dependencies ==
    [w \in WorkerSet |->
        CASE w = "mission_planner" -> {}
          [] w = "aerodynamics"    -> {"mission_planner"}
          [] w = "propulsion"      -> {"mission_planner"}
          [] w = "structures"      -> {"mission_planner", "aerodynamics"}
          [] w = "manufacturing"   -> {"structures"}]

check_dependencies_ready_base(w, outs) == TRUE

check_dependencies_ready(w, outs) ==
    \A d \in Dependencies[w] : Cardinality(DOMAIN outs[d]) > 0

ComparedFields(o) == [f \in (DOMAIN o) \ {"iteration", "messages"} |-> o[f]]

ComparedFieldsWithMessages(o) == [f \in (DOMAIN o) \ {"iteration"} |-> o[f]]

should_update_compare_messages(outs_w, iter, new_output) ==
    IF DOMAIN outs_w = {} THEN TRUE
    ELSE LET previous_keys == {k \in DOMAIN outs_w : k < iter} IN
         IF previous_keys = {} THEN TRUE
         ELSE ComparedFieldsWithMessages(new_output)
                  # ComparedFieldsWithMessages(outs_w[Max(previous_keys)])

should_update_last_iteration(outs_w, iter, new_output) ==
    IF DOMAIN outs_w = {} THEN TRUE
    ELSE LET previous_keys == {k \in DOMAIN outs_w : k < iter} IN
         IF previous_keys = {} THEN TRUE
         ELSE ComparedFields(new_output) # ComparedFields(outs_w[Max(previous_keys)])

RECURSIVE SendLoop(_, _, _, _)
SendLoop(w, msgs, iter, mbs) ==
    IF msgs = <<>> THEN mbs
    ELSE LET m == Head(msgs)
             mbs2 == IF can_communicate_with(w, m.to_agent)
                     THEN add_message(mbs, m.to_agent,
                                      StoredMessage(w, m.to_agent, m.content, iter))
                     ELSE mbs
         IN SendLoop(w, Tail(msgs), iter, mbs2)

send_messages_broadcast(w, msgs, iter, mbs) ==
    [t \in DOMAIN mbs |->
        IF t \in COMMUNICATION_RULES[w]
        THEN mbs[t] \o [k \in 1..Len(msgs) |-> StoredMessage(w, t, msgs[k].content, iter)]
        ELSE mbs[t]]

send_messages_all_or_nothing(w, msgs, iter, mbs) ==
    IF \E k \in 1..Len(msgs) : ~can_communicate_with(w, msgs[k].to_agent)
    THEN mbs
    ELSE SendLoop(w, msgs, iter, SendLoop(w, msgs, iter, mbs))

send_messages_stamp_zero(w, msgs, iter, mbs) ==
    SendLoop(w, msgs, 0, SendLoop(w, msgs, 0, mbs))

\* The body of send_messages holds the delivery loop twice (lines 178-189 and
\* 191-202, separated only by a string expression): both loops run.
send_messages(w, msgs, iter, mbs) ==
    SendLoop(w, msgs, iter, SendLoop(w, msgs, iter, mbs))

StoreOutput(outs_w, iter, out) ==
    [k \in (DOMAIN outs_w) \cup {iter} |-> IF k = iter THEN out ELSE outs_w[k]]

-----------------------------------------------------------------------------
(* Environment: what the inference calls may answer *)

Vals == {1, 2}                       \* abstract value of the compared engineering fields

NominalVal == Min(Vals)

LLMIterations == {0}                 \* the `iteration` field as filled in by the model

AgentMessage(t) == [to_agent |-> t, content |-> "c"]

\* Outgoing messages of a worker output: to a peer, to a worker that is no
\* peer of most senders, to the coordinator, and two messages at once.
WorkerMsgLists ==
    {<<>>, <<AgentMessage("aerodynamics")>>, <<AgentMessage("manufacturing")>>,
     <<AgentMessage("coordinator")>>,
     <<AgentMessage("aerodynamics"), AgentMessage("manufacturing")>>}

\* Messages of a coordinator output: to a worker, to itself, to an unregistered name.
CoordinatorMsgLists ==
    {<<>>, <<AgentMessage("aerodynamics")>>, <<AgentMessage("coordinator")>>,
     <<AgentMessage("ground_station")>>}

AgentTask(name, d) == [agent_name |-> name, task_description |-> d]

TasksFor(S, d) ==
    SelectSeq([i \in 1..Len(Workers) |-> AgentTask(Workers[i], d)],
              LAMBDA t : t.agent_name \in S)

AllTasks == TasksFor(WorkerSet, "t1")

TaskLists ==
    {AllTasks, <<>>, TasksFor(WorkerSet, "t2"), TasksFor({"mission_planner"}, "t1"),
     TasksFor({"mission_planner"}, ""), TasksFor(WorkerSet \ {"mission_planner"}, "t1")}

CoordinatorLLMOutputs ==
    [project_complete : BOOLEAN, completion_reason : {"llm"},
     agent_tasks : TaskLists, messages : CoordinatorMsgLists, iteration : LLMIterations]

WorkerLLMOutputs == [core : Vals, messages : WorkerMsgLists, iteration : LLMIterations]

LatestOutput(outs_w) == outs_w[Max(DOMAIN outs_w)]

\* Cost of an answer against the budget MaxNoise.
WorkerNoise(outs_w, o) ==
    (IF o.messages = <<>> THEN 0 ELSE 1)
    + (IF o.core = (IF DOMAIN outs_w = {} THEN NominalVal ELSE LatestOutput(outs_w).core)
       THEN 0 ELSE 1)

InitialNoise(o) == (IF o.messages = <<>> THEN 0 ELSE 1) + (IF o.agent_tasks = AllTasks THEN 0 ELSE 1)

EvaluationNoise(o) == (IF o.messages = <<>> THEN 0 ELSE 1) + (IF o.agent_tasks = <<>> THEN 0 ELSE 1)

-----------------------------------------------------------------------------
(* Initial state: GlobalState() as built by run_uav_design_project *)

EmptyMap == [k \in {} |-> 0]

Init ==
    /\ node = "coordinator"
    /\ pc = [w \in WorkerSet |-> "idle"]
    /\ current_iteration = 0
    /\ max_iterations \in 1..MaxIter
    /\ stability_threshold \in 1..MaxThreshold
    /\ project_complete = FALSE
    /\ outputs = [w \in WorkerSet |-> EmptyMap]
    /\ coordinator_outputs = EmptyMap
    /\ mailboxes = [a \in Agents |-> <<>>]
    /\ last_update_iteration = [w \in WorkerSet |-> -1]
    /\ eval_log = {}
    /\ noise = 0
    /\ ret = <<>>

-----------------------------------------------------------------------------
(* Coordinator round *)

should_continue_gt(complete, iter, maxiter) ==
    IF complete \/ iter > maxiter THEN "end" ELSE "continue"

should_continue_early(complete, iter, maxiter) ==
    IF complete \/ iter + 1 >= maxiter THEN "end" ELSE "continue"

should_continue(complete, iter, maxiter) ==
    IF complete \/ iter >= maxiter THEN "end" ELSE "continue"

reset_stability_never(lui, output, iter) == lui

reset_stability(lui, output, iter) ==
    IF ~output.project_complete
    THEN [a \in (DOMAIN lui) \cup {"coordinator"} |->
             IF a = "coordinator" THEN iter ELSE lui[a]]
    ELSE lui

next_iteration_stuck(output, iter) == iter

next_iteration_always(output, iter) == iter + 1

next_iteration(output, iter) ==
    IF ~output.project_complete THEN iter + 1 ELSE iter

RECURSIVE CoordinatorSendAfterIncrement(_, _, _)
CoordinatorSendAfterIncrement(msgs, iter, mbs) ==
    IF msgs = <<>> THEN mbs
    ELSE LET m == Head(msgs)
             mbs2 == IF m.to_agent \in DOMAIN mbs
                     THEN add_message(mbs, m.to_agent,
                                      StoredMessage("coordinator", m.to_agent, m.content, iter + 1))
                     ELSE mbs
         IN CoordinatorSendAfterIncrement(Tail(msgs), iter, mbs2)

RECURSIVE CoordinatorSend(_, _, _)
CoordinatorSend(msgs, iter, mbs) ==
    IF msgs = <<>> THEN mbs
    ELSE LET m == Head(msgs)
             mbs2 == IF m.to_agent \in DOMAIN mbs
                     THEN add_message(mbs, m.to_agent,
                                      StoredMessage("coordinator", m.to_agent, m.content, iter))
                     ELSE mbs
         IN CoordinatorSend(Tail(msgs), iter, mbs2)

NotStableOutputWithTasks(iter) ==
    [project_complete |-> FALSE, completion_reason |-> "not_stable",
     agent_tasks |-> AllTasks, messages |-> <<>>, iteration |-> iter]

NotStableOutput(iter) ==
    [project_complete |-> FALSE, completion_reason |-> "not_stable",
     agent_tasks |-> <<>>, messages |-> <<>>, iteration |-> iter]

CoordinatorCommitAfterIncrement(output, lui) ==
    LET next == next_iteration(output, current_iteration)
        out == [output EXCEPT !.iteration = next]
    IN
    /\ coordinator_outputs' = StoreOutput(coordinator_outputs, next, out)
    /\ project_complete' = out.project_complete
    /\ mailboxes' = CoordinatorSend(out.messages, current_iteration, mailboxes)
    /\ current_iteration' = next
    /\ last_update_iteration' = lui
    /\ LET route == should_continue(out.project_complete, next, max_iterations) IN
       /\ node' = IF route = "end" THEN "end" ELSE "aggregator"
       /\ pc' = [w \in WorkerSet |-> IF route = "end" THEN "idle" ELSE "ready"]
    /\ UNCHANGED <<max_iterations, stability_threshold, outputs, ret>>

\* Lines 67-89 of CoordinatorAgent.process, then the conditional edge.
CoordinatorCommit(output, lui) ==
    LET out == [output EXCEPT !.iteration = current_iteration] IN
    /\ coordinator_outputs' = StoreOutput(coordinator_outputs, current_iteration, out)
    /\ project_complete' = out.project_complete
    /\ mailboxes' = CoordinatorSend(out.messages, current_iteration, mailboxes)
    /\ current_iteration' = next_iteration(out, current_iteration)
    /\ last_update_iteration' = lui
    /\ LET route == should_continue(out.project_complete,
                                    next_iteration(out, current_iteration),
                                    max_iterations) IN
       /\ node' = IF route = "end" THEN "end" ELSE "aggregator"
       /\ pc' = [w \in WorkerSet |-> IF route = "end" THEN "idle" ELSE "ready"]
    /\ UNCHANGED <<max_iterations, stability_threshold, outputs, ret>>

CoordinatorInitial ==
    /\ node = "coordinator"
    /\ current_iteration = 0
    /\ \E o \in CoordinatorLLMOutputs :
         /\ noise + InitialNoise(o) <= MaxNoise
         /\ noise' = noise + InitialNoise(o)
         /\ CoordinatorCommit(o, last_update_iteration)
    /\ UNCHANGED eval_log

CoordinatorNotStable ==
    /\ node = "coordinator"
    /\ current_iteration # 0
    /\ ~check_stability(current_iteration, stability_threshold, last_update_iteration)
    /\ CoordinatorCommit(NotStableOutput(current_iteration), last_update_iteration)
    /\ UNCHANGED <<eval_log, noise>>

CoordinatorEvaluateUngated ==
    /\ node = "coordinator"
    /\ current_iteration # 0
    /\ eval_log' = eval_log \cup {current_iteration}
    /\ \E o \in CoordinatorLLMOutputs :
         /\ noise + EvaluationNoise(o) <= MaxNoise
         /\ noise' = noise + EvaluationNoise(o)
         /\ CoordinatorCommit(o, reset_stability(last_update_iteration, o, current_iteration))

CoordinatorEvaluate ==
    /\ node = "coordinator"
    /\ current_iteration # 0
    /\ check_stability(current_iteration, stability_threshold, last_update_iteration)
    /\ eval_log' = eval_log \cup {current_iteration}
    /\ \E o \in CoordinatorLLMOutputs :
         /\ noise + EvaluationNoise(o) <= MaxNoise
         /\ noise' = noise + EvaluationNoise(o)
         /\ CoordinatorCommit(o, reset_stability(last_update_iteration, o, current_iteration))

coordinator_node == CoordinatorInitial \/ CoordinatorNotStable \/ CoordinatorEvaluate

-----------------------------------------------------------------------------
(* Worker round: asyncio.gather over the five process coroutines *)

AllStarted == \A w \in WorkerSet : pc[w] # "ready"

process_start_no_guard(w) ==
    LET task == get_task_for_current_iteration(w, current_iteration, coordinator_outputs) IN
    IF ~Truthy(task) THEN "done"
    ELSE IF ~check_dependencies_ready(w, outputs) THEN "done"
    ELSE "awaiting"

\* BaseAgent.process up to the first suspension (lines 256-279): "done" when
\* the call returns at once, "awaiting" when it reaches the decision step.
process_start(w) ==
    LET task == get_task_for_current_iteration(w, current_iteration, coordinator_outputs) IN
    IF ~Truthy(task) THEN "done"
    ELSE IF ~check_dependencies_ready(w, outputs) THEN "done"
    ELSE IF current_iteration \in DOMAIN outputs[w] THEN "done"
    ELSE "awaiting"

\* gather schedules the five coroutines in list order; each runs to its first
\* suspension before the event loop can resume any of them.
AggregatorStart ==
    /\ node = "aggregator"
    /\ \A w \in WorkerSet : pc[w] = "ready"
    /\ pc' = [w \in WorkerSet |-> process_start(w)]
    /\ UNCHANGED <<node, stateVars, eval_log, noise, ret>>

WorkerFailPartial(w) ==
    /\ node = "aggregator"
    /\ pc[w] = "awaiting"
    /\ AllStarted
    /\ noise < MaxNoise
    /\ noise' = noise + 1
    /\ pc' = [pc EXCEPT ![w] = "done"]
    /\ last_update_iteration' = [last_update_iteration EXCEPT ![w] = current_iteration]
    /\ UNCHANGED <<node, current_iteration, max_iterations, stability_threshold,
                   project_complete, outputs, coordinator_outputs, mailboxes, eval_log, ret>>

\* The decision step raised, or returned no structured_response (lines 283, 295-300).
WorkerFail(w) ==
    /\ node = "aggregator"
    /\ pc[w] = "awaiting"
    /\ AllStarted
    /\ noise < MaxNoise
    /\ noise' = noise + 1
    /\ pc' = [pc EXCEPT ![w] = "done"]
    /\ UNCHANGED <<node, stateVars, eval_log, ret>>

WorkerCommitKeepIteration(w) ==
    /\ node = "aggregator"
    /\ pc[w] = "awaiting"
    /\ AllStarted
    /\ \E o \in WorkerLLMOutputs :
         LET outputs_dict == StoreOutput(outputs[w], current_iteration, o)
         IN /\ noise + WorkerNoise(outputs[w], o) <= MaxNoise
            /\ noise' = noise + WorkerNoise(outputs[w], o)
            /\ outputs' = [outputs EXCEPT ![w] = outputs_dict]
            /\ last_update_iteration' =
                 IF should_update_last_iteration(outputs_dict, current_iteration, o)
                 THEN [last_update_iteration EXCEPT ![w] = current_iteration]
                 ELSE last_update_iteration
            /\ mailboxes' =
                 IF o.messages # <<>>
                 THEN send_messages(w, o.messages, current_iteration, mailboxes)
                 ELSE mailboxes
    /\ pc' = [pc EXCEPT ![w] = "done"]
    /\ UNCHANGED <<node, current_iteration, max_iterations, stability_threshold,
                   project_complete, coordinator_outputs, eval_log, ret>>

\* The decision step returned a structured output (lines 282-293).
WorkerCommit(w) ==
    /\ node = "aggregator"
    /\ pc[w] = "awaiting"
    /\ AllStarted
    /\ \E o \in WorkerLLMOutputs :
         LET structured_output == [o EXCEPT !.iteration = current_iteration]
             outputs_dict == StoreOutput(outputs[w], current_iteration, structured_output)
         IN /\ noise + WorkerNoise(outputs[w], o) <= MaxNoise
            /\ noise' = noise + WorkerNoise(outputs[w], o)
            /\ outputs' = [outputs EXCEPT ![w] = outputs_dict]
            /\ last_update_iteration' =
                 IF should_update_last_iteration(outputs_dict, current_iteration, structured_output)
                 THEN [last_update_iteration EXCEPT ![w] = current_iteration]
                 ELSE last_update_iteration
            /\ mailboxes' =
                 IF structured_output.messages # <<>>
                 THEN send_messages(w, structured_output.messages, current_iteration, mailboxes)
                 ELSE mailboxes
    /\ pc' = [pc EXCEPT ![w] = "done"]
    /\ UNCHANGED <<node, current_iteration, max_iterations, stability_threshold,
                   project_complete, coordinator_outputs, eval_log, ret>>

\* gather returns, aggregator_node returns, edge back to the coordinator.
AggregatorReturn ==
    /\ node = "aggregator"
    /\ \A w \in WorkerSet : pc[w] = "done"
    /\ node' = "coordinator"
    /\ pc' = [w \in WorkerSet |-> "idle"]
    /\ UNCHANGED <<stateVars, eval_log, noise, ret>>

aggregator_node ==
    \/ AggregatorStart
    \/ \E w \in WorkerSet : WorkerFail(w)
    \/ \E w \in WorkerSet : WorkerCommit(w)
    \/ AggregatorReturn

Next == coordinator_node \/ aggregator_node

Spec == Init /\ [][Next]_vars

\* Every inference call returns: a step that can be taken is eventually taken.
FairSpec == Spec /\ WF_vars(Next)

-----------------------------------------------------------------------------
(* Re-entry: process called again for a worker whose output of the current
   iteration is already recorded *)

\* A second call of BaseAgent.process(state) in the same iteration, made once
\* the round's gather has finished, run to its first suspension or return;
\* ret records the worker it was made for.
Reenter(w) ==
    /\ node = "aggregator"
    /\ \A v \in WorkerSet : pc[v] = "done"
    /\ current_iteration \in DOMAIN outputs[w]
    /\ ret = <<>>
    /\ ret' = <<w>>
    /\ pc' = [pc EXCEPT ![w] = process_start(w)]
    /\ UNCHANGED <<node, stateVars, eval_log, noise>>

\* One second call per run; after it the run is followed to the end of the
\* worker round in which it was made.
ReentryNext ==
    \/ ret = <<>> /\ Next
    \/ ret # <<>> /\ aggregator_node
    \/ \E w \in WorkerSet : Reenter(w)

SpecReentry == Init /\ [][ReentryNext]_vars

-----------------------------------------------------------------------------
(* One observed failure of a worker's decision step *)

ObservedFailureAbort(w) ==
    /\ node = "aggregator"
    /\ pc[w] = "awaiting"
    /\ AllStarted
    /\ noise = 0
    /\ ret = <<>>
    /\ ret' = <<w, current_iteration>>
    /\ node' = "end"
    /\ pc' = [v \in WorkerSet |-> "idle"]
    /\ UNCHANGED <<stateVars, eval_log, noise>>

\* WorkerFail outside the budget MaxNoise, at most once per run and as the
\* first non-nominal answer of the run: agent.ainvoke raises or returns no
\* structured_response (lines 283, 295-300); ret records <<worker, iteration>>
\* of the failure.
ObservedFailure(w) ==
    /\ node = "aggregator"
    /\ pc[w] = "awaiting"
    /\ AllStarted
    /\ noise = 0
    /\ ret = <<>>
    /\ ret' = <<w, current_iteration>>
    /\ pc' = [pc EXCEPT ![w] = "done"]
    /\ UNCHANGED <<node, stateVars, eval_log, noise>>

\* After the failure the run is followed through the next worker round.
FailureNext ==
    \/ ret = <<>> /\ Next
    \/ \E w \in WorkerSet : ObservedFailure(w)
    \/ ret # <<>> /\ current_iteration <= ret[2] + 1 /\ Next

SpecFailure == Init /\ [][FailureNext]_vars

-----------------------------------------------------------------------------
(* Decision context: what pre_model_hook assembles for the inference call *)

ReceivedView(msgs) ==
    [k \in 1..Len(msgs) |-> [from |-> msgs[k].from_agent, content |-> msgs[k].content]]

SentView(msgs) ==
    [k \in 1..Len(msgs) |-> [to |-> msgs[k].to_agent, content |-> msgs[k].content]]

get_messages_from_all_iterations(w, iter, mbs) == ReceivedView(mbs[w])

get_messages_from_stale_iteration(w, iter, mbs) ==
    IF iter <= 0 THEN <<>>
    ELSE ReceivedView(get_messages_for_iteration(mbs[w], iter - 2))

get_messages_from_previous_iteration(w, iter, mbs) ==
    IF iter <= 0 THEN <<>>
    ELSE ReceivedView(get_messages_for_iteration(mbs[w], iter - 1))

get_own_previous_output(w, outs) ==
    IF DOMAIN outs[w] = {} THEN EmptyMap
    ELSE [k \in {"previous_output"} |-> LatestOutput(outs[w])]

\* The dict built by lines 73-79 of get_communicable_agents_outputs.
communicable_outputs(w, outs) ==
    [a \in {b \in COMMUNICATION_RULES[w] : DOMAIN outs[b] # {}} |-> LatestOutput(outs[a])]

\* The function has no return statement: the dict it builds is dropped.
get_communicable_agents_outputs(w, outs) == None

\* get_dependency_outputs of the five roles; keys are the dependency's agent
\* name (the code uses "mission_plan" for mission_planner).
get_dependency_outputs(w, outs) ==
    [d \in {e \in Dependencies[w] : DOMAIN outs[e] # {}} |-> LatestOutput(outs[d])]

\* Iteration order of state.mailboxes.items() (state.py 54-61).
MailboxOrder ==
    <<"coordinator", "mission_planner", "aerodynamics", "propulsion", "structures",
      "manufacturing">>

RECURSIVE SentIn(_, _, _, _)
SentIn(w, owners, iteration, mbs) ==
    IF owners = <<>> THEN <<>>
    ELSE LET rest == SentIn(w, Tail(owners), iteration, mbs) IN
         IF Head(owners) = w THEN rest
         ELSE SelectSeq(get_messages_for_iteration(mbs[Head(owners)], iteration),
                        LAMBDA m : m.from_agent = w) \o rest

HistoryItem(w, iteration, mbs) ==
    [iteration |-> iteration,
     received |-> ReceivedView(get_messages_for_iteration(mbs[w], iteration)),
     sent |-> SentView(SentIn(w, MailboxOrder, iteration, mbs))]

RECURSIVE HistoryFrom(_, _, _, _)
HistoryFrom(w, iteration, iter, mbs) ==
    IF iteration >= iter THEN <<>>
    ELSE LET item == HistoryItem(w, iteration, mbs)
             rest == HistoryFrom(w, iteration + 1, iter, mbs)
         IN IF item.received # <<>> \/ item.sent # <<>> THEN <<item>> \o rest ELSE rest

get_complete_agent_history_inclusive(w, iter, mbs) == HistoryFrom(w, 0, iter + 1, mbs)

get_complete_agent_history(w, iter, mbs) == HistoryFrom(w, 0, iter, mbs)

\* The arguments of format_agent_human_message_with_context (lines 208-237).
Context(w) ==
    [task |-> get_task_for_current_iteration(w, current_iteration, coordinator_outputs),
     dependencies |-> get_dependency_outputs(w, outputs),
     messages_received |-> get_messages_from_previous_iteration(w, current_iteration, mailboxes),
     history |-> get_complete_agent_history(w, current_iteration, mailboxes),
     own_previous |-> get_own_previous_output(w, outputs),
     communicable_outputs |-> get_communicable_agents_outputs(w, outputs)]

\* The hook runs inside agent.ainvoke, before each model call of the tool
\* loop: at any moment between the coroutine's suspension and its commit. It
\* reads the shared state as it is at that moment and changes none of it;
\* ret holds <<worker, context>> of the call.
pre_model_hook(w) ==
    /\ node = "aggregator"
    /\ AllStarted
    /\ pc[w] = "awaiting"
    /\ ret = <<>>
    /\ ret' = <<w, Context(w)>>
    /\ UNCHANGED <<node, pc, stateVars, eval_log, noise>>

\* One call of the hook is observed per run, and the run ends with it.
ContextNext ==
    \/ ret = <<>> /\ Next
    \/ \E w \in WorkerSet : pre_model_hook(w)

SpecContext == Init /\ [][ContextNext]_vars

-----------------------------------------------------------------------------
(* Direct calls of the stability detector on arbitrary bookkeeping *)

\* Workers never run at iteration 0 and the coordinator resets its entry only
\* at an iteration > 0, so an entry is -1 or lies in 1..current_iteration.
UpdateDicts(iter) ==
    LET entries == {-1} \cup (1..iter) IN
    [WorkerSet -> entries]
    \cup {[a \in Agents |-> IF a = "coordinator" THEN c ELSE f[a]] :
              f \in [WorkerSet -> entries], c \in 1..iter}

StabInit ==
    /\ node = "coordinator"
    /\ pc = [w \in WorkerSet |-> "idle"]
    /\ current_iteration \in 0..MaxStabIter
    /\ max_iterations = MaxIter
    /\ stability_threshold \in 1..MaxThreshold
    /\ project_complete = FALSE
    /\ outputs = [w \in WorkerSet |-> EmptyMap]
    /\ coordinator_outputs = EmptyMap
    /\ mailboxes = [a \in Agents |-> <<>>]
    /\ last_update_iteration \in UpdateDicts(current_iteration)
    /\ eval_log = {}
    /\ noise = 0
    /\ ret = <<>>

CheckStabilityCall ==
    /\ ret = <<>>
    /\ ret' = <<check_stability(current_iteration, stability_threshold, last_update_iteration)>>
    /\ UNCHANGED <<node, pc, stateVars, eval_log, noise>>

StabNext == CheckStabilityCall

SpecStab == StabInit /\ [][StabNext]_vars

-----------------------------------------------------------------------------
(* Direct use of AgentMailbox: add_message and get_messages_for_iteration *)

MailOwners == {"aerodynamics", "coordinator"}

MailSenders == {"coordinator", "mission_planner"}

MailInit ==
    /\ Init
    /\ max_iterations = MaxIter
    /\ stability_threshold = MaxThreshold

\* add_message as its callers use it: the stamp is the current iteration
\* (base_agent.py 180-187, coordinator.py 74-81).
MailboxAdd ==
    /\ Len(mailboxes["aerodynamics"]) + Len(mailboxes["coordinator"]) < MaxMailLen
    /\ \E owner \in MailOwners : \E from \in MailSenders :
         mailboxes' = add_message(mailboxes, owner,
                                  StoredMessage(from, owner, "c", current_iteration))
    /\ ret' = <<>>
    /\ UNCHANGED <<node, pc, current_iteration, max_iterations, stability_threshold,
                   project_complete, outputs, coordinator_outputs,
                   last_update_iteration, eval_log, noise>>

\* The iteration counter moves on between adds (coordinator.py 85-87).
MailboxAdvance ==
    /\ current_iteration < MaxStamp
    /\ current_iteration' = current_iteration + 1
    /\ ret' = <<>>
    /\ UNCHANGED <<node, pc, max_iterations, stability_threshold, project_complete,
                   outputs, coordinator_outputs, mailboxes, last_update_iteration,
                   eval_log, noise>>

\* get_messages_for_iteration(n) on one mailbox; ret holds <<owner, n, result>>.
MailboxRead ==
    /\ \E owner \in MailOwners : \E n \in 0..MaxStamp :
         ret' = <<owner, n, get_messages_for_iteration(mailboxes[owner], n)>>
    /\ UNCHANGED <<node, pc, stateVars, eval_log, noise>>

MailNext == MailboxAdd \/ MailboxAdvance \/ MailboxRead

SpecMailbox == MailInit /\ [][MailNext]_vars

-----------------------------------------------------------------------------
(* Claims *)

Commits(w) ==
    /\ current_iteration \notin DOMAIN outputs[w]
    /\ current_iteration \in DOMAIN outputs'[w]

FirstOutput(w) == Min(DOMAIN outputs[w])

\* C1: once outputs[A][i] is written (worker or coordinator), every later
\* state holds the same value under that key: no step overwrites, changes or
\* removes an existing (agent, iteration) entry.
C1_OutputsImmutable ==
    [][ /\ \A w \in WorkerSet : \A i \in DOMAIN outputs[w] :
              i \in DOMAIN outputs'[w] /\ outputs'[w][i] = outputs[w][i]
        /\ \A i \in DOMAIN coordinator_outputs :
              i \in DOMAIN coordinator_outputs' /\ coordinator_outputs'[i] = coordinator_outputs[i]
      ]_vars

C1_Witness ==
    /\ \E w \in WorkerSet : Cardinality(DOMAIN outputs[w]) >= 2
    /\ Cardinality(DOMAIN coordinator_outputs) >= 3

\* C2: a worker commit in iteration i whose output lists one message to an
\* allowed target t appends exactly one StoredMessage to t's mailbox, from the
\* sender and stamped i.
C2_DeliveredExactlyOnce ==
    [][ \A w \in WorkerSet : \A t \in COMMUNICATION_RULES[w] :
          (Commits(w) /\ outputs'[w][current_iteration].messages = <<AgentMessage(t)>>)
          => mailboxes'[t] = Append(mailboxes[t], StoredMessage(w, t, "c", current_iteration))
      ]_vars

\* C3: every stored message sent by a worker w lies in the mailbox of its
\* to_agent, and that agent is in w's allowed-communication set.
C3_GraphRespected ==
    \A t \in Agents : \A k \in 1..Len(mailboxes[t]) :
        LET m == mailboxes[t][k] IN
        m.from_agent \in WorkerSet
        => (m.to_agent = t /\ t \in COMMUNICATION_RULES[m.from_agent])

C3_Witness ==
    /\ \E i \in DOMAIN outputs["propulsion"] :
          \E k \in 1..Len(outputs["propulsion"][i].messages) :
              outputs["propulsion"][i].messages[k].to_agent = "manufacturing"
    /\ \A k \in 1..Len(mailboxes["manufacturing"]) :
          mailboxes["manufacturing"][k].from_agent # "propulsion"

\* C4: for every dependency pair of the gate table the dependent's first
\* output lies in a strictly later iteration than the dependency's first
\* output; structures has no output before mission_planner's first plus 2.
C4_DependencyLatency ==
    /\ \A w \in WorkerSet : \A d \in Dependencies[w] :
          DOMAIN outputs[w] # {}
          => (DOMAIN outputs[d] # {} /\ FirstOutput(w) > FirstOutput(d))
    /\ DOMAIN outputs["structures"] # {}
          => FirstOutput("structures") >= FirstOutput("mission_planner") + 2

C4_Witness ==
    /\ DOMAIN outputs["structures"] # {}
    /\ DOMAIN outputs["propulsion"] # {}

\* C5: a call of the stability check made while current_iteration is below
\* stability_threshold returns false, whatever last_update_iteration holds.
C5_FalseBelowThreshold ==
    (ret # <<>> /\ current_iteration < stability_threshold) => ret[1] = FALSE

C5_Witness ==
    /\ ret # <<>>
    /\ current_iteration < stability_threshold
    /\ \A a \in DOMAIN last_update_iteration :
          current_iteration - last_update_iteration[a] >= stability_threshold

\* C6: the stability check returns true exactly when current_iteration >=
\* stability_threshold and every agent with an entry in last_update_iteration
\* (the five workers, and the coordinator once it has one) was last updated
\* at least stability_threshold iterations ago; the call changes no state.
C6_StabilityFormula ==
    [][ ret' # ret
        => /\ ret' = << /\ current_iteration >= stability_threshold
                        /\ \A a \in Agents :
                             a \in DOMAIN last_update_iteration
                             => current_iteration - last_update_iteration[a]
                                    >= stability_threshold >>
           /\ UNCHANGED stateVars
      ]_vars

C6_Witness ==
    /\ ret = <<FALSE>>
    /\ current_iteration >= stability_threshold
    /\ "coordinator" \in DOMAIN last_update_iteration
    /\ \A w \in WorkerSet :
          current_iteration - last_update_iteration[w] >= stability_threshold

\* C7: a worker commit in iteration i sets last_update_iteration[agent] to i
\* exactly when the agent has no earlier output or the compared fields differ
\* from its most recent output with key < i; otherwise the entry is unchanged.
C7_UpdateClassification ==
    [][ \A w \in WorkerSet :
          Commits(w)
          => LET i == current_iteration
                 previous_keys == {k \in DOMAIN outputs[w] : k < i}
                 is_update == \/ previous_keys = {}
                              \/ outputs'[w][i].core # outputs[w][Max(previous_keys)].core
             IN /\ (last_update_iteration'[w] = i) <=> is_update
                /\ ~is_update => last_update_iteration'[w] = last_update_iteration[w]
      ]_vars

C7_Witness ==
    \E w \in WorkerSet : \E i \in DOMAIN outputs[w] : \E j \in DOMAIN outputs[w] :
        /\ i < j
        /\ outputs[w][i].core = outputs[w][j].core
        /\ outputs[w][i].messages # outputs[w][j].messages
        /\ last_update_iteration[w] = i

\* C8: current_iteration never exceeds max_iterations, and no coordinator or
\* worker round runs from a state in which current_iteration >= max_iterations.
C8_IterationCap ==
    /\ [](current_iteration <= max_iterations)
    /\ [][current_iteration < max_iterations]_vars

C8_Witness ==
    /\ node = "end"
    /\ current_iteration = max_iterations
    /\ max_iterations >= 2
    /\ ~project_complete

\* C9: after a coordinator round at iteration k that found the system stable
\* and decided to continue, last_update_iteration["coordinator"] = k, and no
\* completion evaluation is invoked at an iteration j with
\* k < j < k + stability_threshold.
ContinuedAt == {k \in eval_log : ~coordinator_outputs[k].project_complete}

C9_Snooze ==
    /\ ContinuedAt # {}
          => /\ "coordinator" \in DOMAIN last_update_iteration
             /\ last_update_iteration["coordinator"] = Max(ContinuedAt)
    /\ \A k \in ContinuedAt : \A j \in eval_log :
          ~(k < j /\ j < k + stability_threshold)

C9_Witness ==
    \E k \in ContinuedAt : \E j \in DOMAIN coordinator_outputs :
        /\ k < j
        /\ j < k + stability_threshold
        /\ last_update_iteration["coordinator"] = k

\* C10 as stated: with stability_threshold = 2, all five workers last updated
\* at iteration 1 and no earlier evaluation (the coordinator has no entry),
\* the stability check is false before iteration 2 and true at iteration 2.
C10_Premise ==
    /\ ret # <<>>
    /\ stability_threshold = 2
    /\ DOMAIN last_update_iteration = WorkerSet
    /\ \A w \in WorkerSet : last_update_iteration[w] = 1

C10_StableAtTwo ==
    C10_Premise => /\ current_iteration < 2 => ret[1] = FALSE
                   /\ current_iteration = 2 => ret[1] = TRUE

\* C10 amended: under the same premise the stability check is false at every
\* iteration below 3 and true at iteration 3.
C10_StableAtThree ==
    C10_Premise => /\ current_iteration < 3 => ret[1] = FALSE
                   /\ current_iteration = 3 => ret[1] = TRUE

C10_Witness ==
    /\ C10_Premise
    /\ current_iteration = 3
    /\ ret = <<TRUE>>


\* C11 as stated: the coordinator round at iteration 0 never sets
\* project_complete; after it the flag is false and current_iteration is 1.
C11_BootstrapNeverComplete ==
    0 \in DOMAIN coordinator_outputs
    => /\ ~coordinator_outputs[0].project_complete
       /\ current_iteration >= 1

\* C12 as stated: after the coordinator round at iteration 0,
\* coordinator_outputs[0].agent_tasks names each of the five workers, so every
\* worker's task lookup returns a task in the first worker round.
C12_InitialTasksForAll ==
    0 \in DOMAIN coordinator_outputs
    => /\ \A w \in WorkerSet : HasTask(coordinator_outputs[0].agent_tasks, w)
       /\ current_iteration = 1
             => \A w \in WorkerSet :
                   Truthy(get_task_for_current_iteration(w, current_iteration,
                                                         coordinator_outputs))

\* C13: a coordinator round at iteration i > 0 that finds the system not
\* stable invokes no evaluation, records an output with project_complete
\* false and no tasks and no messages, changes no mailbox and no
\* last_update_iteration entry, and moves current_iteration to i + 1.
C13_UnstableRoundIsNoOp ==
    [][ ( /\ node = "coordinator"
          /\ current_iteration > 0
          /\ ~check_stability(current_iteration, stability_threshold, last_update_iteration) )
        => /\ eval_log' = eval_log
           /\ current_iteration \in DOMAIN coordinator_outputs'
           /\ coordinator_outputs'[current_iteration].project_complete = FALSE
           /\ coordinator_outputs'[current_iteration].agent_tasks = <<>>
           /\ coordinator_outputs'[current_iteration].messages = <<>>
           /\ project_complete' = FALSE
           /\ mailboxes' = mailboxes
           /\ last_update_iteration' = last_update_iteration
           /\ current_iteration' = current_iteration + 1
      ]_vars

C13_Witness ==
    \E i \in DOMAIN coordinator_outputs :
        /\ i > 0
        /\ i \notin eval_log
        /\ coordinator_outputs[i].completion_reason = "not_stable"
        /\ current_iteration > i

\* C14: current_iteration never decreases; a coordinator round adds exactly 1
\* when its output has project_complete false and leaves it unchanged when
\* the output has project_complete true; no step of a worker round changes it.
C14_IterationSteps ==
    [][ IF node = "coordinator"
        THEN /\ current_iteration \in DOMAIN coordinator_outputs'
             /\ current_iteration' =
                  IF coordinator_outputs'[current_iteration].project_complete
                  THEN current_iteration
                  ELSE current_iteration + 1
        ELSE current_iteration' = current_iteration
      ]_vars

C14_Witness ==
    /\ project_complete
    /\ current_iteration >= 2
    /\ \E w \in WorkerSet : DOMAIN outputs[w] # {}


\* C16: in the state in which the run ends, project_complete is true or
\* current_iteration >= max_iterations; a run stopped by the cap may end
\* with project_complete false.
C16_EndCondition ==
    node = "end" => (project_complete \/ current_iteration >= max_iterations)

C16_Witness ==
    /\ node = "end"
    /\ ~project_complete
    /\ current_iteration >= max_iterations
    /\ \E w \in WorkerSet : DOMAIN outputs[w] # {}

PassesGate(w) == pc[w] = "ready" /\ pc'[w] = "awaiting"

\* C17 as stated: a worker passes its gate in iteration i (and only then may
\* commit) only if every dependency of its role has an output recorded for
\* iteration i itself.
C17_GateNeedsCurrentIteration ==
    [][ \A w \in WorkerSet :
          /\ Commits(w) => pc[w] = "awaiting"
          /\ PassesGate(w)
                => \A d \in Dependencies[w] : current_iteration \in DOMAIN outputs[d]
      ]_vars

\* C17 amended: a worker passes its gate in iteration i (and only then may
\* commit) only if every dependency of its role has an output recorded for
\* some iteration, which at the gate check is always earlier than i;
\* mission_planner has no dependency.
C17_GateNeedsSomeOutput ==
    [][ \A w \in WorkerSet :
          /\ Commits(w) => pc[w] = "awaiting"
          /\ PassesGate(w)
                => \A d \in Dependencies[w] :
                      /\ \E k \in DOMAIN outputs[d] : k < current_iteration
                      /\ current_iteration \notin DOMAIN outputs[d]
      ]_vars

C17_Witness ==
    \E i \in DOMAIN outputs["aerodynamics"] :
        /\ i \notin DOMAIN outputs["mission_planner"]
        /\ current_iteration > i

TaskIterations(w) ==
    {k \in DOMAIN coordinator_outputs : HasTask(coordinator_outputs[k].agent_tasks, w)}

TaskIn(k, w) ==
    LET tasks == coordinator_outputs[k].agent_tasks IN
    tasks[CHOOSE i \in 1..Len(tasks) : tasks[i].agent_name = w].task_description

ExpectedTask(w) ==
    IF current_iteration \in TaskIterations(w) THEN TaskIn(current_iteration, w)
    ELSE LET earlier == {k \in TaskIterations(w) : k < current_iteration} IN
         IF earlier = {} THEN None ELSE TaskIn(Max(earlier), w)

\* C18: at the start of a worker's process call the task lookup returns the
\* task of coordinator_outputs[current_iteration] if it names the agent,
\* otherwise the task of the greatest earlier iteration whose output names
\* the agent; an agent never named returns at once with the state unchanged
\* and has no output.
C18_TaskLookup ==
    /\ [](\A w \in WorkerSet : TaskIterations(w) = {} => DOMAIN outputs[w] = {})
    /\ [][ (node = "aggregator" /\ \A w \in WorkerSet : pc[w] = "ready")
           => \A w \in WorkerSet :
                /\ get_task_for_current_iteration(w, current_iteration, coordinator_outputs)
                       = ExpectedTask(w)
                /\ TaskIterations(w) = {} => (pc'[w] = "done" /\ UNCHANGED stateVars)
         ]_vars

C18_Witness ==
    /\ node = "aggregator"
    /\ current_iteration >= 2
    /\ TaskIterations("mission_planner") = {0}
    /\ pc["mission_planner"] = "awaiting"
    /\ \E w \in WorkerSet : TaskIterations(w) = {} /\ pc[w] = "done"

\* C20: while a worker has no output for the current iteration (its decision
\* step failed, or has not returned), last_update_iteration[agent] is not the
\* current iteration and no mailbox holds a message from that agent stamped
\* with the current iteration.
C20_NoPartialResult ==
    \A w \in WorkerSet :
        (node = "aggregator" /\ current_iteration \notin DOMAIN outputs[w])
        => /\ last_update_iteration[w] # current_iteration
           /\ \A t \in Agents : \A k \in 1..Len(mailboxes[t]) :
                 ~(mailboxes[t][k].from_agent = w
                   /\ mailboxes[t][k].iteration = current_iteration)

C20_Witness ==
    /\ node = "aggregator"
    /\ pc["mission_planner"] = "done"
    /\ current_iteration \notin DOMAIN outputs["mission_planner"]
    /\ DOMAIN outputs["mission_planner"] # {}
    /\ Truthy(get_task_for_current_iteration("mission_planner", current_iteration,
                                             coordinator_outputs))


\* C15: provided every inference call returns, every run reaches the end
\* state; it starts with a coordinator round, a coordinator round is followed
\* by a worker round or the end, a worker round by a coordinator round, no
\* worker coroutine exists outside a worker round, and there are at most
\* max_iterations coordinator rounds.
C15_Terminates ==
    /\ node = "coordinator"
    /\ <>(node = "end")
    /\ [](Cardinality(DOMAIN coordinator_outputs) <= max_iterations)
    /\ [](node # "aggregator" => \A w \in WorkerSet : pc[w] = "idle")
    /\ [][ /\ node = "coordinator"
              => /\ node' \in {"aggregator", "end"}
                 /\ Cardinality(DOMAIN coordinator_outputs')
                       = Cardinality(DOMAIN coordinator_outputs) + 1
           /\ (node = "aggregator" /\ node' # "aggregator")
              => (node' = "coordinator" /\ \A w \in WorkerSet : pc[w] = "done")
           /\ node # "end"
         ]_vars

C15_Witness ==
    /\ node = "end"
    /\ max_iterations >= 3
    /\ Cardinality(DOMAIN coordinator_outputs) = max_iterations
    /\ \E w \in WorkerSet : Cardinality(DOMAIN outputs[w]) >= 2


MessagesFrom(mb, w) == SelectSeq(mb, LAMBDA m : m.from_agent = w)

\* C19: while a worker already has outputs[w][current_iteration], a call of
\* process for it returns at once: it never reaches the decision step, its
\* output record and last_update_iteration entry stay as they are, and no
\* mailbox receives a message from it.
C19_ReentryNoOp ==
    [][ \A w \in WorkerSet :
          (node = "aggregator" /\ current_iteration \in DOMAIN outputs[w])
          => /\ pc'[w] # "awaiting"
             /\ outputs'[w] = outputs[w]
             /\ last_update_iteration'[w] = last_update_iteration[w]
             /\ \A t \in Agents :
                  MessagesFrom(mailboxes'[t], w) = MessagesFrom(mailboxes[t], w)
      ]_vars

C19_Witness ==
    /\ ret # <<>>
    /\ node = "aggregator"
    /\ current_iteration \in DOMAIN outputs[ret[1]]
    /\ outputs[ret[1]][current_iteration].messages # <<>>
    /\ pc[ret[1]] = "done"
    /\ last_update_iteration[ret[1]] = current_iteration


Disallowed(w, out) ==
    {k \in 1..Len(out.messages) : out.messages[k].to_agent \notin COMMUNICATION_RULES[w]}

NewPart(t) == SubSeq(mailboxes'[t], Len(mailboxes[t]) + 1, Len(mailboxes'[t]))

\* C22: a worker commit in iteration i whose output lists a message to a
\* target outside the sender's allowed set still records the output under i
\* and applies the update classification; the mailbox of every allowed target
\* named in the output receives messages from the sender stamped i, and no
\* other mailbox changes.
C22_OnlyViolatingMessageDropped ==
    [][ \A w \in WorkerSet :
          (Commits(w) /\ Disallowed(w, outputs'[w][current_iteration]) # {})
          => LET i == current_iteration
                 out == outputs'[w][i]
                 previous_keys == {k \in DOMAIN outputs[w] : k < i}
                 is_update == \/ previous_keys = {}
                              \/ out.core # outputs[w][Max(previous_keys)].core
             IN /\ (last_update_iteration'[w] = i) <=> is_update
                /\ \A t \in Agents :
                     IF /\ t \in COMMUNICATION_RULES[w]
                        /\ \E k \in 1..Len(out.messages) : out.messages[k].to_agent = t
                     THEN /\ Len(mailboxes'[t]) > Len(mailboxes[t])
                          /\ SubSeq(mailboxes'[t], 1, Len(mailboxes[t])) = mailboxes[t]
                          /\ \A k \in 1..Len(NewPart(t)) :
                               NewPart(t)[k] = StoredMessage(w, t, "c", i)
                     ELSE mailboxes'[t] = mailboxes[t]
      ]_vars

C22_Witness ==
    \E i \in DOMAIN outputs["mission_planner"] :
        /\ outputs["mission_planner"][i].messages
              = <<AgentMessage("aerodynamics"), AgentMessage("manufacturing")>>
        /\ \E k \in 1..Len(mailboxes["aerodynamics"]) :
              mailboxes["aerodynamics"][k] = StoredMessage("mission_planner", "aerodynamics", "c", i)
        /\ mailboxes["manufacturing"] = <<>>
        /\ last_update_iteration["mission_planner"] = i


StampedFor(msgs, t, i) ==
    LET sel == SelectSeq(msgs, LAMBDA m : m.to_agent = t) IN
    [k \in 1..Len(sel) |-> StoredMessage("coordinator", t, sel[k].content, i)]

\* C23: a coordinator round at iteration i appends to the mailbox of every
\* registered agent (the five workers and the coordinator itself) exactly the
\* messages of its output addressed to that agent, once each, in order, with
\* from_agent "coordinator" and stamp i; a message to an unregistered name
\* creates no mailbox and the round still records its output and moves on.
C23_CoordinatorDispatch ==
    [][ node = "coordinator"
        => LET i == current_iteration IN
           /\ i \in DOMAIN coordinator_outputs'
           /\ node' \in {"aggregator", "end"}
           /\ DOMAIN mailboxes' = Agents
           /\ \A t \in Agents :
                mailboxes'[t]
                   = mailboxes[t] \o StampedFor(coordinator_outputs'[i].messages, t, i)
      ]_vars

C23_Witness ==
    \E i \in DOMAIN coordinator_outputs :
        /\ current_iteration = i + 1
        /\ node = "aggregator"
        /\ coordinator_outputs[i].messages = <<AgentMessage("coordinator")>>
        /\ mailboxes["coordinator"] = <<StoredMessage("coordinator", "coordinator", "c", i)>>


IsPrefix(s, t) == Len(s) <= Len(t) /\ SubSeq(t, 1, Len(s)) = s

\* C24: every mailbox is append-only: in every step, and so between any
\* earlier and any later state, each agent's message sequence is a prefix of
\* its next one; a read leaves every mailbox as it is.
C24_AppendOnly ==
    [][ /\ \A a \in Agents : IsPrefix(mailboxes[a], mailboxes'[a])
        /\ (ret' # <<>> /\ ret' # ret) => mailboxes' = mailboxes
      ]_vars

C24_Witness ==
    /\ ret # <<>>
    /\ Len(ret[3]) = 1
    /\ Len(mailboxes[ret[1]]) = 3
    /\ mailboxes[ret[1]][1] # mailboxes[ret[1]][2]
    /\ mailboxes[ret[1]][2] # mailboxes[ret[1]][3]

StampIndices(mb, n) == {k \in 1..Len(mb) : mb[k].iteration = n}

ExpectedMessages(mb, n) ==
    LET I == StampIndices(mb, n) IN
    [j \in 1..Cardinality(I) |->
        mb[CHOOSE k \in I : Cardinality({k2 \in I : k2 <= k}) = j]]

\* C25: get_messages_for_iteration(n) returns exactly the messages of the
\* mailbox stamped n, in insertion order, leaves the mailbox unchanged, and
\* returns the same result when called again with no add in between.
C25_MessagesFor ==
    [][ (ret' # <<>> /\ ret' # ret)
        => /\ ret'[3] = ExpectedMessages(mailboxes[ret'[1]], ret'[2])
           /\ mailboxes' = mailboxes
           /\ (ret # <<>> /\ ret[1] = ret'[1] /\ ret[2] = ret'[2]) => ret'[3] = ret[3]
      ]_vars

C25_Witness ==
    /\ ret # <<>>
    /\ Len(ret[3]) = 2
    /\ ret[3][1].from_agent = "mission_planner"
    /\ ret[3][2].from_agent = "coordinator"
    /\ Len(mailboxes[ret[1]]) = 3
    /\ mailboxes[ret[1]][1].iteration < ret[2]


\* C26: the received-messages part of the context assembled for a worker in
\* iteration i is exactly the (sender, content) pairs of the messages in its
\* own mailbox stamped i - 1, in insertion order; it is empty at iteration 0.
C26_PreviousIterationOnly ==
    /\ \A w \in WorkerSet : get_messages_from_previous_iteration(w, 0, mailboxes) = <<>>
    /\ ret # <<>>
          => ret[2].messages_received
                = ReceivedView(ExpectedMessages(mailboxes[ret[1]], current_iteration - 1))

C26_Witness ==
    /\ ret # <<>>
    /\ ret[1] = "aerodynamics"
    /\ ret[2].messages_received # <<>>
    /\ ret[2].messages_received[1].from = "mission_planner"
    /\ pc["mission_planner"] = "done"


\* C28 as stated: within a worker round at iteration i, no output for
\* iteration i exists when the dependency gates are evaluated, and the
\* dependency outputs in a worker's assembled context were all committed in an
\* earlier round (none carries iteration i).
C28_NoSameRoundRead ==
    /\ (node = "aggregator" /\ \A w \in WorkerSet : pc[w] = "ready")
          => \A w \in WorkerSet : current_iteration \notin DOMAIN outputs[w]
    /\ ret # <<>>
          => \A d \in DOMAIN ret[2].dependencies :
                ret[2].dependencies[d].iteration < current_iteration


Targets(out) == {out.messages[k].to_agent : k \in 1..Len(out.messages)}

\* C27: the return of a worker's process call in iteration i changes at most
\* its own outputs entry for i, its own last_update_iteration entry and the
\* mailboxes of the targets of its outgoing messages; every other agent's
\* outputs and last_update_iteration entries, coordinator_outputs,
\* current_iteration, project_complete and all other mailboxes stay as they
\* are. The other steps of a worker round change none of these.
C27_WorkerFrame ==
    [][ node = "aggregator"
        => /\ UNCHANGED <<coordinator_outputs, current_iteration, project_complete,
                          max_iterations, stability_threshold>>
           /\ DOMAIN last_update_iteration' = DOMAIN last_update_iteration
           /\ \A w \in WorkerSet :
                IF pc[w] = "awaiting" /\ pc'[w] = "done"
                THEN /\ \A k \in DOMAIN outputs[w] :
                          k \in DOMAIN outputs'[w] /\ outputs'[w][k] = outputs[w][k]
                     /\ DOMAIN outputs'[w] \subseteq DOMAIN outputs[w] \cup {current_iteration}
                     /\ \A t \in Agents :
                          mailboxes'[t] # mailboxes[t]
                          => /\ current_iteration \in DOMAIN outputs'[w]
                             /\ t \in Targets(outputs'[w][current_iteration])
                     /\ \A a \in DOMAIN last_update_iteration :
                          a # w => last_update_iteration'[a] = last_update_iteration[a]
                ELSE /\ outputs'[w] = outputs[w]
                     /\ (\A v \in WorkerSet : ~(pc[v] = "awaiting" /\ pc'[v] = "done"))
                           => /\ last_update_iteration' = last_update_iteration
                              /\ mailboxes' = mailboxes
      ]_vars

C27_Witness ==
    /\ node = "aggregator"
    /\ current_iteration \in DOMAIN outputs["mission_planner"]
    /\ outputs["mission_planner"][current_iteration].messages = <<AgentMessage("aerodynamics")>>
    /\ mailboxes["aerodynamics"] # <<>>
    /\ mailboxes["propulsion"] = <<>>
    /\ current_iteration \in DOMAIN outputs["aerodynamics"]


StableNow ==
    /\ current_iteration >= stability_threshold
    /\ \A a \in DOMAIN last_update_iteration :
          current_iteration - last_update_iteration[a] >= stability_threshold

\* C29: a coordinator round at an iteration > 0 invokes the completion
\* evaluation if and only if the system is stable at the start of the round,
\* and project_complete becomes true in such a round only if it was stable.
C29_EvaluationGated ==
    [][ (node = "coordinator" /\ current_iteration > 0)
        => /\ (current_iteration \in eval_log') <=> StableNow
           /\ eval_log' \ {current_iteration} = eval_log
           /\ project_complete' => StableNow
      ]_vars

C29_Witness ==
    /\ project_complete
    /\ current_iteration >= 2
    /\ current_iteration \in eval_log
    /\ \E j \in DOMAIN coordinator_outputs : j > 0 /\ j \notin eval_log

\* C30: whenever the stability check is true at the coordinator round of
\* iteration i, every output a worker committed in the iterations
\* i - stability_threshold + 1 .. i has the same compared fields as that
\* worker's preceding output.
C30_StableMeansUnchanged ==
    ( /\ node = "coordinator"
      /\ current_iteration > 0
      /\ check_stability(current_iteration, stability_threshold, last_update_iteration) )
    => \A w \in WorkerSet : \A j \in DOMAIN outputs[w] :
          LET preceding == {k \in DOMAIN outputs[w] : k < j} IN
          (j >= current_iteration - stability_threshold + 1 /\ preceding # {})
          => ComparedFields(outputs[w][j]) = ComparedFields(outputs[w][Max(preceding)])

C30_Witness ==
    /\ node = "coordinator"
    /\ current_iteration > 0
    /\ check_stability(current_iteration, stability_threshold, last_update_iteration)
    /\ \E w \in WorkerSet :
          /\ current_iteration \in DOMAIN outputs[w]
          /\ current_iteration - 1 \in DOMAIN outputs[w]


FailureFrame ==
    /\ ret' # ret
          => /\ UNCHANGED <<node, stateVars>>
             /\ \A v \in WorkerSet : v # ret'[1] => pc'[v] = pc[v]
    /\ (ret # <<>> /\ node = "aggregator") => node' \in {"aggregator", "coordinator"}
    /\ (ret # <<>> /\ current_iteration = ret[2])
          => \A v \in WorkerSet :
                (v # ret[1] /\ pc[v] = "awaiting" /\ pc'[v] = "done" /\ noise' = noise)
                => current_iteration \in DOMAIN outputs'[v]

NextRoundStarts ==
    /\ ret # <<>>
    /\ node = "aggregator"
    /\ current_iteration = ret[2] + 1
    /\ \A v \in WorkerSet : pc[v] = "ready"

\* C21 as stated: a failed decision step changes nothing but the failed
\* worker's position, the other workers of the round still commit, the round
\* returns to the coordinator, and in the next worker round, if there is one,
\* the failed worker reaches its decision step again.
C21_FailureRetriedNextRound ==
    [][ /\ FailureFrame
        /\ NextRoundStarts => pc'[ret[1]] = "awaiting"
      ]_vars

\* C21 amended: as above, but in the next worker round the failed worker
\* reaches its decision step again exactly when its task lookup still returns
\* a non-empty task; if the most recent coordinator output naming it gives it
\* an empty description, it returns at once.
C21_FailureRetriedWhileTasked ==
    [][ /\ FailureFrame
        /\ NextRoundStarts
              => (pc'[ret[1]] = "awaiting"
                    <=> Truthy(get_task_for_current_iteration(ret[1], current_iteration,
                                                             coordinator_outputs)))
      ]_vars

C21_Witness ==
    /\ ret # <<>>
    /\ node = "aggregator"
    /\ current_iteration = ret[2] + 1
    /\ pc[ret[1]] = "awaiting"
    /\ \E v \in WorkerSet : v # ret[1] /\ ret[2] \in DOMAIN outputs[v]



\* C31 as stated: the peer-awareness part of the context assembled for a
\* worker holds, for every agent of its allowed-communication set that has an
\* output, that agent's output with the greatest iteration key, and nothing
\* for the others (an absent part shows nothing, like an empty one).
C31_PeerAwareness ==
    ret # <<>>
    => LET expected == communicable_outputs(ret[1], outputs) IN
       DOMAIN expected # {}
       => /\ ret[2].communicable_outputs # None
          /\ ret[2].communicable_outputs = expected



SentIndices(w, t, j, mbs) ==
    {k \in 1..Len(mbs[t]) : mbs[t][k].from_agent = w /\ mbs[t][k].iteration = j}

HistoryIterations(w, i, mbs) ==
    {j \in 0..(i - 1) :
        \/ StampIndices(mbs[w], j) # {}
        \/ \E t \in Agents \ {w} : SentIndices(w, t, j, mbs) # {}}

\* C32: the history part of the context assembled for a worker in iteration i
\* has one item for each iteration j < i in which the worker received or sent
\* a message, in ascending j; the item's received part is exactly the
\* messages of its own mailbox stamped j and its sent part exactly the
\* messages of the other mailboxes sent by it and stamped j. Iterations with
\* neither have no item and no message stamped i appears.
C32_HistoryExact ==
    ret # <<>>
    => LET w == ret[1]
           h == ret[2].history
       IN /\ Len(h) = Cardinality(HistoryIterations(w, current_iteration, mailboxes))
          /\ \A k \in 1..Len(h) :
               /\ h[k].iteration \in HistoryIterations(w, current_iteration, mailboxes)
               /\ k > 1 => h[k - 1].iteration < h[k].iteration
               /\ h[k].received
                     = ReceivedView(ExpectedMessages(mailboxes[w], h[k].iteration))
               /\ \A n \in 1..Len(h[k].sent) :
                     h[k].sent[n].to \in Agents /\ h[k].sent[n].content = "c"
               /\ \A t \in Agents :
                     Cardinality({n \in 1..Len(h[k].sent) : h[k].sent[n].to = t})
                        = IF t = w THEN 0
                          ELSE Cardinality(SentIndices(w, t, h[k].iteration, mailboxes))

C32_Witness ==
    /\ ret # <<>>
    /\ current_iteration = 3
    /\ Len(ret[2].history) = 1
    /\ ret[2].history[1].iteration = 1
    /\ ret[2].history[1].sent # <<>>
    /\ ret[2].history[1].received = <<>>



AllHaveOutput == \A w \in WorkerSet : DOMAIN outputs[w] # {}

\* C34 as stated: whenever project_complete is true each of the five workers
\* has at least one committed output, and the stability check of a
\* coordinator round is never true while some worker has no output.
C34_CompleteMeansAllOutputs ==
    /\ project_complete => AllHaveOutput
    /\ ( /\ node = "coordinator"
         /\ current_iteration > 0
         /\ check_stability(current_iteration, stability_threshold, last_update_iteration) )
       => AllHaveOutput



\* C35: workers never commit at iteration 0 nor for a past or future
\* iteration: every key k of every worker's outputs map satisfies
\* 1 <= k <= current_iteration, the output stored under k carries iteration k,
\* and every coordinator output stored under k carries iteration k.
C35_KeysAndStamps ==
    /\ \A w \in WorkerSet : \A k \in DOMAIN outputs[w] :
          /\ 1 <= k
          /\ k <= current_iteration
          /\ outputs[w][k].iteration = k
    /\ \A k \in DOMAIN coordinator_outputs : coordinator_outputs[k].iteration = k

C35_Witness ==
    /\ current_iteration = 3
    /\ DOMAIN outputs["mission_planner"] = {1, 2, 3}
    /\ DOMAIN outputs["structures"] = {3}
    /\ DOMAIN coordinator_outputs = {0, 1, 2}



\* C36: whenever a worker round runs at iteration i, coordinator_outputs has
\* exactly the keys 0..i-1: the current-iteration branch of the task lookup
\* matches for no worker, and a task a worker acts on is the one given by a
\* coordinator output of an earlier iteration.
C36_TaskFromEarlierIteration ==
    node = "aggregator"
    => /\ DOMAIN coordinator_outputs = 0..(current_iteration - 1)
       /\ \A w \in WorkerSet :
            LET task == get_task_for_current_iteration(w, current_iteration,
                                                       coordinator_outputs) IN
            /\ get_task_current_only(w, current_iteration, coordinator_outputs) = None
            /\ pc[w] = "awaiting"
                  => \E k \in 0..(current_iteration - 1) :
                        /\ HasTask(coordinator_outputs[k].agent_tasks, w)
                        /\ FirstTask(coordinator_outputs[k].agent_tasks, w) = task

C36_Witness ==
    /\ node = "aggregator"
    /\ current_iteration = 3
    /\ pc["structures"] = "awaiting"
    /\ coordinator_outputs[2].agent_tasks = <<>>



AssignedNonEmpty(w) == \E k \in TaskIterations(w) : TaskIn(k, w) # ""

\* C38 as stated: once some coordinator output has assigned a worker a task
\* with a non-empty description, the worker's task lookup returns a task in
\* every later worker round, and it is the task of the most recent
\* coordinator output that names the worker.
C38_TaskPersists ==
    node = "aggregator"
    => \A w \in WorkerSet :
          AssignedNonEmpty(w)
          => LET task == get_task_for_current_iteration(w, current_iteration,
                                                        coordinator_outputs) IN
             /\ Truthy(task)
             /\ task = TaskIn(Max(TaskIterations(w)), w)

\* C38 amended: in every worker round the task lookup of a worker that some
\* coordinator output has named returns the description given by the most
\* recent such output, whatever outputs without tasks came after it; the
\* worker gets past the task check only if that description is non-empty,
\* so a later output naming it with an empty description withdraws the task.
C38_MostRecentNamingDecides ==
    node = "aggregator"
    => \A w \in WorkerSet :
          TaskIterations(w) # {}
          => LET task == get_task_for_current_iteration(w, current_iteration,
                                                        coordinator_outputs) IN
             /\ task = TaskIn(Max(TaskIterations(w)), w)
             /\ pc[w] = "awaiting" => task # ""
             /\ (AllStarted /\ task = "") => pc[w] = "done"

C38_Witness ==
    /\ node = "aggregator"
    /\ TaskIterations("mission_planner") = {0, 1}
    /\ TaskIn(0, "mission_planner") = "t1"
    /\ TaskIn(1, "mission_planner") = "t2"
    /\ pc["mission_planner"] = "awaiting"



\* Every message of the worker's mailbox stamped with the previous iteration
\* is in the received part of the context, once per stored copy.
AllPreviousPresented(w, context) ==
    LET I == StampIndices(mailboxes[w], current_iteration - 1) IN
    /\ Len(context.messages_received) = Cardinality(I)
    /\ \A k \in I :
          \E n \in 1..Len(context.messages_received) :
             context.messages_received[n]
                = [from |-> mailboxes[w][k].from_agent, content |-> mailboxes[w][k].content]

\* C39 as stated: every message stored in a worker's mailbox with stamp i is
\* presented to that worker as a previous-iteration message in worker round
\* i + 1 whenever the run reaches that round: the worker reaches its decision
\* step in that round and the context assembled there holds the message.
C39_NeverSkipped ==
    [][ /\ \A w \in WorkerSet :
             ( /\ node = "aggregator"
               /\ \A v \in WorkerSet : pc[v] = "ready"
               /\ StampIndices(mailboxes[w], current_iteration - 1) # {} )
             => pc'[w] = "awaiting"
        /\ ret' # ret => AllPreviousPresented(ret'[1], ret'[2])
      ]_vars

\* C39 amended: every context assembled for a worker in worker round i + 1
\* holds every message of its mailbox stamped i; a context is assembled only
\* for a worker that has reached its decision step in that round (non-empty
\* task, open dependency gate), so a message stamped i to a worker that does
\* not reach it in round i + 1 is not presented as a previous-iteration
\* message at all.
C39_PresentedWhenDeciding ==
    ret # <<>>
    => /\ pc[ret[1]] = "awaiting"
       /\ process_start(ret[1]) = "awaiting"
       /\ AllPreviousPresented(ret[1], ret[2])

C39_Witness ==
    /\ ret # <<>>
    /\ ret[1] = "aerodynamics"
    /\ current_iteration = 2
    /\ Len(ret[2].messages_received) = 2
    /\ Len(mailboxes["aerodynamics"]) = 2

====
